---- MODULE Spec2Model ----
(***************************************************************************)
(* The Cricket scoreboard game session of src/app/game-screen.js           *)
(* (GameScreenPage): the in-memory grid and move history, the winner flag, *)
(* the save-on-exit effect, and the asynchronous reads and writes of the   *)
(* two AsyncStorage collections "inProgressGames" and "completedGames".    *)
(*                                                                         *)
(* JavaScript object identity matters in this component and is modelled:   *)
(*  - handleCellPress / handleUndo copy only the outer array of the grid   *)
(*    ([...prevGrid]) and assign into the shared row arrays, so every      *)
(*    closure that captured an earlier `grid` sees later taps until the    *)
(*    grid is replaced as a whole (reset, reload on focus);                *)
(*  - handleUndo pops the captured `history` array in place before it      *)
(*    installs a copy;                                                     *)
(*  - the cleanup of the save-on-exit effect runs the saveGame of the      *)
(*    render in which [isWinnerDeclared, changesMade] last changed.        *)
(* A closure is a record with the fields gridLive / grid / histLive /      *)
(* history: gridLive says that its grid still shares the rows of the       *)
(* current grid state (else `grid` holds the rows it was left with),       *)
(* histLive that its history is the very array of the current state.       *)
(***************************************************************************)
EXTENDS Integers, Sequences, FiniteSets, TLC

VARIABLES
    setup,             \* Game Setup screen: useState gameName and players
    page,              \* Game History screen: useState inProgressGames, completedGames
    uncaught,          \* async functions whose promise rejected with no handler
    route,             \* route parameters players, grid, history: serialized values
    renderError,       \* rendering the screen threw
    gameName,          \* route parameter gameName
    players,           \* route parameter players, parsed
    grid,              \* useState grid: rows of cells [taps |-> n]
    history,           \* useState history: sequence of moves
    changesMade,       \* useState changesMade
    isWinnerDeclared,  \* useState isWinnerDeclared
    mounted,           \* the screen is mounted
    effect,            \* closure of the save-on-exit effect now installed
    inflight,          \* async functions suspended at an await, oldest first
    store,             \* AsyncStorage: inProgressGames, completedGames
    timers,            \* winner names of pending setTimeout callbacks
    pushed,            \* router.push calls made: winner-popup params
    migration,         \* progress of saveCompletedGame: none, running, done, failed
    failedSave,        \* a save's setItem was rejected and no save was started since
    lastOp,            \* the last user operation and what it saw
    nOps               \* user operations so far

vars == <<setup, page, uncaught, route, renderError, gameName, players, grid, history, changesMade, isWinnerDeclared,
          mounted, effect, inflight, store, timers, pushed, migration,
          failedSave, lastOp, nOps>>

----------------------------------------------------------------------------
(* Bounds of the model *)

\* user operations that are carried out (tap, undo, reset, focus, leave) per session
MaxOps == 2

\* async functions in flight at once
MaxInFlight == 2

----------------------------------------------------------------------------
(* Program constants *)

rows == <<"20", "19", "18", "17", "16", "15", "Bull">>

NumRows == 7

MaxTaps == 3

DefaultPlayers == <<"Player 1", "Player 2">>

Min(a, b) == IF a < b THEN a ELSE b

Front(s) == SubSeq(s, 1, Len(s) - 1)

Last(s) == s[Len(s)]

\* mutant of initialGridState: a row for every player, a cell for every number
initialGridStateByPlayer(ps) ==
    [r \in 1..Len(ps) |-> [c \in 1..Len(rows) |-> [taps |-> 0]]]

\* rows.map(() => Array(players.length).fill({ taps: 0 }))
initialGridState(ps) ==
    [r \in 1..Len(rows) |-> [c \in 1..Len(ps) |-> [taps |-> 0]]]


\* One entry of the move history: { rowIndex, colIndex, previousTaps }
Move(rowIndex, colIndex, previousTaps) ==
    [rowIndex |-> rowIndex, colIndex |-> colIndex, previousTaps |-> previousTaps]

\* mutant of newTaps: the ceiling of 3 is forgotten
newTapsUnbounded(previousTaps) == previousTaps + 1

\* const newTaps = Math.min(previousTaps + 1, 3)
newTaps(previousTaps) == Min(previousTaps + 1, MaxTaps)

\* newGrid[rowIndex][colIndex] = { taps: newTaps }  (indices are 0-based)
SetCell(g, rowIndex, colIndex, taps) ==
    [g EXCEPT ![rowIndex + 1][colIndex + 1] = [taps |-> taps]]

CellTaps(g, rowIndex, colIndex) == g[rowIndex + 1][colIndex + 1].taps

\* the grid handleCellPress's updater returns
TapGrid(g, rowIndex, colIndex) ==
    SetCell(g, rowIndex, colIndex, newTaps(CellTaps(g, rowIndex, colIndex)))

\* mutant of TapHistory: a tap that does not change the cell is not recorded
TapHistoryIfChanged(g, h, rowIndex, colIndex) ==
    IF CellTaps(g, rowIndex, colIndex) < MaxTaps
    THEN Append(h, Move(rowIndex, colIndex, CellTaps(g, rowIndex, colIndex)))
    ELSE h

\* the history handleCellPress's setHistory updater returns
TapHistory(g, h, rowIndex, colIndex) ==
    Append(h, Move(rowIndex, colIndex, CellTaps(g, rowIndex, colIndex)))

\* mutant of isWinner: some() in place of every()
isWinnerSome(g, colIndex) ==
    \E r \in 1..Len(g) : g[r][colIndex + 1].taps = MaxTaps

\* checkForWinner: column.every(cell => cell.taps === 3)
isWinner(g, colIndex) ==
    \A r \in 1..Len(g) : g[r][colIndex + 1].taps = MaxTaps

\* mutant of UndoGrid: the cell is decremented instead of restored
UndoGridDecrement(g, h) ==
    SetCell(g, Last(h).rowIndex, Last(h).colIndex,
            CellTaps(g, Last(h).rowIndex, Last(h).colIndex) - 1)

\* the grid handleUndo's updater returns for lastMove = history.pop()
UndoGrid(g, h) ==
    SetCell(g, Last(h).rowIndex, Last(h).colIndex, Last(h).previousTaps)

\* mutant of UndoHistory: shift() in place of pop()
UndoHistoryOldest(h) == Tail(h)

\* the history handleUndo installs: [...history] after history.pop()
UndoHistory(h) == Front(h)

----------------------------------------------------------------------------
(* Records of the two collections.  The date string of the in-progress    *)
(* record is left out: nothing in the component reads it back.            *)

\* gameData of saveGame, resetGameHistory of saveResetGame
GameData(name, ps, g, h) ==
    [gameName |-> name, players |-> ps, grid |-> g, history |-> h]

\* completedGame of saveCompletedGame
\* mutant of CompletedGame: the completed record is built like the
\* in-progress one, with a history
CompletedGameWithHistory(name, ps, g, winnerName) ==
    [gameName |-> name, players |-> ps, grid |-> g, history |-> <<>>,
     winner |-> winnerName,
     date |-> "toLocaleDateString", time |-> "toLocaleTimeString"]

\* the texts of the wall clock are abstracted to one value each
CompletedGame(name, ps, g, winnerName) ==
    [gameName |-> name, players |-> ps, grid |-> g, winner |-> winnerName,
     date |-> "toLocaleDateString", time |-> "toLocaleTimeString"]

\* games.filter(game => game.gameName !== gameName)
WithoutGame(games, name) ==
    SelectSeq(games, LAMBDA game : game.gameName # name)

\* mutant of Upsert: the filter by name is forgotten
UpsertNoFilter(games, gameData) == Append(games, gameData)

\* saveGame / saveResetGame: filter by name, then push
Upsert(games, gameData) ==
    Append(WithoutGame(games, gameData.gameName), gameData)

\* saveCompletedGame: completedGames.push(completedGame)
\* mutant of PushCompleted: the completed collection is keyed by gameName
\* like the in-progress one
PushCompletedByName(completedGames, completedGame) ==
    Append(SelectSeq(completedGames,
                     LAMBDA game : game.gameName # completedGame.gameName),
           completedGame)

PushCompleted(completedGames, completedGame) ==
    Append(completedGames, completedGame)

\* games.find(game => game.gameName === gameName): the first match
FindGame(games, name) ==
    LET hits == SelectSeq(games, LAMBDA game : game.gameName = name)
    IN  IF hits = <<>> THEN <<>> ELSE <<Head(hits)>>

NamesOf(games) == [i \in 1..Len(games) |-> games[i].gameName]

CountName(games, name) ==
    Cardinality({i \in 1..Len(games) : games[i].gameName = name})

----------------------------------------------------------------------------
(* Closures and object identity *)

\* what a render's closure holds of `grid` and `history`
Closure(gridLive, g, histLive, h) ==
    [gridLive |-> gridLive, grid |-> g, histLive |-> histLive, history |-> h]

\* the closure of the render that shows the current state
RenderClosure(h) == Closure(TRUE, <<>>, TRUE, h)

\* the rows a closure's grid holds when it is serialized now
ClosureGrid(c) == IF c.gridLive THEN grid ELSE c.grid

\* What a handler does to the arrays an older closure c still holds:
\*  "tap"     setHistory installs a new array; rows are assigned in place
\*  "undo"    history.pop() shortens the captured array, then a copy is installed
\*  "replace" setGrid / setHistory install new objects (reset, reload)
Adjust(c, how) ==
    CASE how = "tap" ->
            [c EXCEPT !.histLive = FALSE]
      [] how = "undo" ->
            [c EXCEPT !.history = IF c.histLive THEN Front(@) ELSE @,
                      !.histLive = FALSE]
      [] how = "replace" ->
            [c EXCEPT !.grid = IF c.gridLive THEN grid ELSE @,
                      !.gridLive = FALSE,
                      !.histLive = FALSE]
      [] OTHER -> c

AdjustAll(ops, how) == [i \in 1..Len(ops) |-> Adjust(ops[i], how)]

\* an async function that has just reached its first await
AsyncOp(kind, c, winnerName) ==
    [kind |-> kind, pc |-> "getItem",
     gridLive |-> c.gridLive, grid |-> c.grid,
     histLive |-> c.histLive, history |-> c.history,
     winner |-> winnerName, payload |-> <<>>]

RemoveAt(s, i) == SubSeq(s, 1, i - 1) \o SubSeq(s, i + 1, Len(s))

----------------------------------------------------------------------------
(* The save-on-exit effect: useEffect(..., [isWinnerDeclared, changesMade]) *)

\* the effect installed by a render with these state values
EffectOf(won, changed, h) ==
    [isWinnerDeclared |-> won, changesMade |-> changed,
     gridLive |-> TRUE, grid |-> <<>>, histLive |-> TRUE, history |-> h]

\* the dependency array differs from the one the effect was installed with
DepsChanged(eff, won, changed) ==
    <<eff.isWinnerDeclared, eff.changesMade>> # <<won, changed>>

\* the cleanup: if (!isWinnerDeclared && changesMade) saveGame()
Cleanup(eff) ==
    IF ~eff.isWinnerDeclared /\ eff.changesMade
    THEN <<AsyncOp("saveGame", eff, "")>>
    ELSE <<>>

\* async functions started by the effects of the render that follows a handler
RenderSpawn(eff, won, changed) ==
    IF DepsChanged(eff, won, changed) THEN Cleanup(eff) ELSE <<>>

\* the effect installed after that render
RenderEffect(eff, won, changed, h) ==
    IF DepsChanged(eff, won, changed) THEN EffectOf(won, changed, h) ELSE eff

----------------------------------------------------------------------------
(* Route parameters.  The setup and history screens pass players, grid and *)
(* history as JSON text; a parameter is absent (undefined or ""), or a     *)
(* text that JSON.parse accepts and turns into a value, or a text on which *)
(* JSON.parse throws a SyntaxError.                                        *)

Absent == [given |-> FALSE, wellFormed |-> FALSE, value |-> <<>>]

Malformed == [given |-> TRUE, wellFormed |-> FALSE, value |-> <<>>]

\* JSON.stringify(v)
Stringify(v) == [given |-> TRUE, wellFormed |-> TRUE, value |-> v]

\* JSON.parse(param) throws
ParseThrows(param) == param.given /\ ~param.wellFormed

\* param ? JSON.parse(param) : dflt, when nothing throws
ParseOr(param, dflt) == IF param.given THEN param.value ELSE dflt

\* the parameters router.push gives the screen for these values
RouteOf(ps, g, h) ==
    [players |-> Stringify(ps), grid |-> Stringify(g), history |-> Stringify(h)]

----------------------------------------------------------------------------
(* AsyncStorage.  A key that was never set has no item: getItem resolves to *)
(* null for it, and every reader writes `item ? JSON.parse(item) : []`.     *)

StoreKeys == {"inProgressGames", "completedGames"}

\* the store with these collections under their keys, both set
Stored(inProgress, completed) ==
    [inProgressGames |-> inProgress, completedGames |-> completed, absent |-> {}]

\* await AsyncStorage.getItem(key), when it resolves
getItem(key) == IF key \in store.absent THEN Absent ELSE Stringify(store[key])

\* await AsyncStorage.setItem(key, JSON.stringify(value)), when it resolves
setItem(key, value) ==
    [store EXCEPT ![key] = value, !.absent = @ \ {key}]

\* the other screens are closed
NoSetup == [open |-> FALSE, gameName |-> "", players |-> <<>>]

NoPage == [open |-> FALSE, inProgressGames |-> <<>>, completedGames |-> <<>>]

----------------------------------------------------------------------------
(* Sessions the model starts from.  A session is opened by Game Setup      *)
(* (fresh grid, empty history) or by Resume in Game History (the fields of *)
(* an in-progress record); the collections hold what earlier sessions left.*)

Players2 == <<"Player 1", "Player 2">>

Players3 == <<"Player 1", "Player 2", "Player 3">>

Players4 == <<"Player 1", "Player 2", "Player 3", "Player 4">>

\* column 0 closed on every row but the last, which has two marks
NearWinGrid ==
    [r \in 1..Len(rows) |->
        [c \in 1..2 |-> [taps |-> IF c = 1 THEN (IF r < Len(rows) THEN 3 ELSE 2)
                                  ELSE 0]]]

\* the 20 taps that produce NearWinGrid, in row order
NearWinHistory ==
    [i \in 1..20 |-> Move((i - 1) \div 3, 0, (i - 1) % 3)]

NearWinRecord == GameData("G", Players2, NearWinGrid, NearWinHistory)

\* another game, in progress
OtherRecord ==
    GameData("H", Players2, SetCell(initialGridState(Players2), 0, 1, 1),
             <<Move(0, 1, 0)>>)

\* an earlier three-player game that was given the same name
WideRecord ==
    GameData("G", Players3, SetCell(initialGridState(Players3), 0, 2, 1),
             <<Move(0, 2, 0)>>)

\* an earlier game of the same name, won by the second player
OldCompleted ==
    CompletedGame("G", Players2,
        [r \in 1..Len(rows) |-> [c \in 1..2 |-> [taps |-> IF c = 2 THEN 3 ELSE 0]]],
        "Player 2")

Setup(ps, inProgress, completed) ==
    [players |-> ps, grid |-> initialGridState(ps), history |-> <<>>,
     inProgress |-> inProgress, completed |-> completed]

Resume(rec, inProgress, completed) ==
    [players |-> rec.players, grid |-> rec.grid, history |-> rec.history,
     inProgress |-> inProgress, completed |-> completed]

Sessions ==
    { Setup(Players4, <<OtherRecord>>, <<>>),
      Setup(Players2, <<WideRecord>>, <<>>),
      Resume(NearWinRecord, <<OtherRecord, NearWinRecord>>, <<OldCompleted>>) }

\* the cells the model taps
TapCells == { <<0, 0>>, <<6, 0>>, <<6, 1>> }

\* lastOp: the operation, whether its handler went past its first line, and,
\* for a tap and for the undo that follows it, the tapped cell and the grid
\* and history the tap started from
NoOp(name) ==
    [op |-> name, accepted |-> FALSE, afterTap |-> FALSE,
     rowIndex |-> 0, colIndex |-> 0, grid |-> <<>>, history |-> <<>>]

\* the component after its first render and effects, the focus effect's
\* fetchGameState at its await
StartOn(s, st) ==
    /\ setup = NoSetup
    /\ page = NoPage
    /\ uncaught = <<>>
    /\ route = RouteOf(s.players, s.grid, s.history)
    /\ renderError = FALSE
    /\ gameName = "G"
    /\ players = s.players
    /\ grid = s.grid
    /\ history = s.history
    /\ changesMade = FALSE
    /\ isWinnerDeclared = FALSE
    /\ mounted = TRUE
    /\ effect = EffectOf(FALSE, FALSE, s.history)
    /\ inflight = <<AsyncOp("fetchGameState", RenderClosure(s.history), "")>>
    /\ store = st
    /\ timers = <<>>
    /\ pushed = <<>>
    /\ migration = "none"
    /\ failedSave = FALSE
    /\ lastOp = NoOp("mount")
    /\ nOps = 0

\* the same, the collections being what earlier sessions left
Start(s) == StartOn(s, Stored(s.inProgress, s.completed))

Init == \E s \in Sessions : Start(s)

----------------------------------------------------------------------------
(* User operations *)

\* one of the async functions is a save of the in-progress record
StartsSave(ops) ==
    \E i \in 1..Len(ops) : ops[i].kind \in {"saveGame", "saveResetGame"}

\* a handler's state updates, followed by the render and its effects
Handle(g2, h2, changed2, won2, how, spawned) ==
    LET eff1 == Adjust(effect, how)
        ops  == AdjustAll(inflight, how) \o spawned
                    \o RenderSpawn(eff1, won2, changed2)
    IN  /\ Len(ops) <= MaxInFlight
        /\ grid' = g2
        /\ history' = h2
        /\ changesMade' = changed2
        /\ isWinnerDeclared' = won2
        /\ effect' = RenderEffect(eff1, won2, changed2, h2)
        /\ inflight' = ops
        /\ failedSave' = (failedSave /\ ~StartsSave(spawned
                                \o RenderSpawn(eff1, won2, changed2)))

\* a handler that returns at once
Refuse(name) ==
    /\ lastOp' = NoOp(name)
    /\ UNCHANGED <<grid, history, changesMade, isWinnerDeclared, effect,
                   inflight, store, timers, migration, failedSave, nOps>>

\* handleCellPress(rowIndex, colIndex), with checkForWinner
handleCellPress(rowIndex, colIndex, limit) ==
    /\ mounted
    /\ nOps < limit
    /\ rowIndex \in 0..(Len(rows) - 1)
    /\ colIndex \in 0..(Len(players) - 1)
    /\ UNCHANGED <<setup, page, uncaught, route, renderError, gameName, players, mounted, pushed>>
    /\ IF isWinnerDeclared
       THEN Refuse("tap")
       ELSE LET newGrid == TapGrid(grid, rowIndex, colIndex)
                won     == isWinner(newGrid, colIndex)
                winnerName == players[colIndex + 1]
            IN  /\ nOps' = nOps + 1
                /\ Handle(newGrid,
                          TapHistory(grid, history, rowIndex, colIndex),
                          TRUE, won, "tap",
                          IF won
                          THEN <<AsyncOp("saveCompletedGame",
                                         Closure(TRUE, <<>>, FALSE, <<>>),
                                         winnerName)>>
                          ELSE <<>>)
                /\ timers' = IF won THEN Append(timers, winnerName) ELSE timers
                /\ migration' = IF won THEN "running" ELSE migration
                /\ lastOp' = [op |-> "tap", accepted |-> TRUE, afterTap |-> FALSE,
                              rowIndex |-> rowIndex, colIndex |-> colIndex,
                              grid |-> grid, history |-> history]
                /\ UNCHANGED store

Tap == \E cell \in TapCells : handleCellPress(cell[1], cell[2], MaxOps)

\* mutant of handleUndo: with an empty history the early return is missed
\* for the flag and the save, only the pop and the cell are skipped
handleUndoSavesAnyway(limit) ==
    /\ mounted
    /\ nOps < limit
    /\ UNCHANGED <<setup, page, uncaught, route, renderError, gameName, players, mounted, pushed>>
    /\ IF isWinnerDeclared
       THEN Refuse("undo")
       ELSE IF Len(history) = 0
       THEN /\ Handle(grid, history, TRUE, isWinnerDeclared, "undo",
                      <<AsyncOp("saveGame",
                                Closure(TRUE, <<>>, FALSE, history), "")>>)
            /\ lastOp' = NoOp("undo")
            /\ UNCHANGED <<store, timers, migration, nOps>>
       ELSE /\ nOps' = nOps + 1
            /\ Handle(UndoGrid(grid, history), UndoHistory(history),
                      TRUE, isWinnerDeclared, "undo",
                      <<AsyncOp("saveGame",
                                Closure(TRUE, <<>>, FALSE, UndoHistory(history)),
                                "")>>)
            /\ lastOp' = IF lastOp.op = "tap" /\ lastOp.accepted
                          THEN [lastOp EXCEPT !.op = "undo", !.afterTap = TRUE]
                          ELSE [NoOp("undo") EXCEPT !.accepted = TRUE]
            /\ UNCHANGED <<store, timers, migration>>

\* handleUndo
handleUndo(limit) ==
    /\ mounted
    /\ nOps < limit
    /\ UNCHANGED <<setup, page, uncaught, route, renderError, gameName, players, mounted, pushed>>
    /\ IF Len(history) = 0 \/ isWinnerDeclared
       THEN Refuse("undo")
       ELSE /\ nOps' = nOps + 1
            /\ Handle(UndoGrid(grid, history), UndoHistory(history),
                      TRUE, isWinnerDeclared, "undo",
                      <<AsyncOp("saveGame",
                                Closure(TRUE, <<>>, FALSE, UndoHistory(history)),
                                "")>>)
            /\ lastOp' = IF lastOp.op = "tap" /\ lastOp.accepted
                          THEN [lastOp EXCEPT !.op = "undo", !.afterTap = TRUE]
                          ELSE [NoOp("undo") EXCEPT !.accepted = TRUE]
            /\ UNCHANGED <<store, timers, migration>>

Undo == handleUndo(MaxOps)

\* handleResetBoard, "Yes" pressed
handleResetBoard(limit) ==
    /\ mounted
    /\ nOps < limit
    /\ nOps' = nOps + 1
    /\ Handle(initialGridState(players), <<>>, TRUE, isWinnerDeclared, "replace",
              <<AsyncOp("saveResetGame", Closure(TRUE, <<>>, FALSE, <<>>), "")>>)
    /\ lastOp' = [NoOp("reset") EXCEPT !.accepted = TRUE]
    /\ UNCHANGED <<setup, page, uncaught, route, renderError, gameName, players, mounted, pushed, store,
                   timers, migration>>

ResetConfirm == handleResetBoard(MaxOps)

\* mutant of ResetCancel: the grid and the history are reset before the
\* answer is looked at
ResetCancelApplies ==
    /\ mounted
    /\ nOps < MaxOps
    /\ grid' = initialGridState(players)
    /\ history' = <<>>
    /\ lastOp' = NoOp("cancel")
    /\ UNCHANGED <<setup, page, uncaught, route, renderError, gameName, players, failedSave, changesMade, isWinnerDeclared, mounted,
                   effect, inflight, store, timers, pushed, migration, nOps>>

\* handleResetBoard, "Cancel" pressed
ResetCancel ==
    /\ mounted
    /\ nOps < MaxOps
    /\ Refuse("cancel")
    /\ UNCHANGED <<setup, page, uncaught, route, renderError, gameName, players, mounted, pushed>>

\* the screen regains focus: the focus effect calls fetchGameState
ResumeFocus ==
    /\ mounted
    /\ nOps < MaxOps
    /\ Len(inflight) < MaxInFlight
    /\ nOps' = nOps + 1
    /\ inflight' = Append(inflight,
                          AsyncOp("fetchGameState", RenderClosure(history), ""))
    /\ lastOp' = NoOp("focus")
    /\ UNCHANGED <<setup, page, uncaught, route, renderError, gameName, players, failedSave, grid, history, changesMade,
                   isWinnerDeclared, mounted, effect, store, timers, pushed, migration>>

\* the screen is left: the effect's cleanup runs at unmount
Suspend(limit) ==
    /\ mounted
    /\ nOps < limit
    /\ Len(inflight \o Cleanup(effect)) <= MaxInFlight
    /\ nOps' = nOps + 1
    /\ mounted' = FALSE
    /\ inflight' = inflight \o Cleanup(effect)
    /\ failedSave' = (failedSave /\ ~StartsSave(Cleanup(effect)))
    /\ lastOp' = NoOp("suspend")
    /\ UNCHANGED <<setup, page, uncaught, route, renderError, gameName, players, grid, history, changesMade,
                   isWinnerDeclared, effect, store, timers, pushed, migration>>

Leave == Suspend(MaxOps)

----------------------------------------------------------------------------
(* Async functions: each await of an AsyncStorage call is a step.  getItem  *)
(* delivers the collection as it is when the continuation runs; the string  *)
(* handed to setItem is fixed there and lands when setItem resolves.        *)

\* state updates made by a continuation, followed by the render and its effects
Continue(i, changed2) ==
    LET rest == RemoveAt(inflight, i)
    IN  IF mounted
        THEN /\ changesMade' = changed2
             /\ effect' = RenderEffect(effect, isWinnerDeclared, changed2, history)
             /\ inflight' = rest \o RenderSpawn(effect, isWinnerDeclared, changed2)
             /\ failedSave' = (failedSave /\ ~StartsSave(
                                  RenderSpawn(effect, isWinnerDeclared, changed2)))
        ELSE /\ inflight' = rest
             /\ UNCHANGED <<changesMade, effect, failedSave>>

\* saveGame / saveResetGame after `await AsyncStorage.getItem('inProgressGames')`
SaveRead(i) ==
    LET op == inflight[i]
        gameData == GameData(gameName, players, ClosureGrid(op), op.history)
    IN  /\ op.kind \in {"saveGame", "saveResetGame"}
        /\ op.pc = "getItem"
        /\ inflight' = [inflight EXCEPT ![i] =
                          [op EXCEPT !.pc = "setItem",
                                     !.payload = Upsert(ParseOr(getItem("inProgressGames"), <<>>),
                                                         gameData),
                                     !.gridLive = FALSE, !.grid = <<>>,
                                     !.histLive = FALSE, !.history = <<>>]]
        /\ UNCHANGED <<setup, page, uncaught, route, renderError, gameName, players, failedSave, grid, history, changesMade,
                       isWinnerDeclared, mounted, effect, store, timers, pushed, migration, lastOp, nOps>>

\* saveGame / saveResetGame after `await AsyncStorage.setItem(...)`:
\* setOriginalGrid, setChangesMade(false)
SaveWrite(i) ==
    LET op == inflight[i]
    IN  /\ op.kind \in {"saveGame", "saveResetGame"}
        /\ op.pc = "setItem"
        /\ store' = setItem("inProgressGames", op.payload)
        /\ Continue(i, FALSE)
        /\ UNCHANGED <<setup, page, uncaught, route, renderError, gameName, players, grid, history, isWinnerDeclared,
                       mounted, timers, pushed, migration, lastOp,
                       nOps>>

\* saveCompletedGame after `await AsyncStorage.getItem('completedGames')`
CompletedRead(i) ==
    LET op == inflight[i]
        completedGame == CompletedGame(gameName, players, ClosureGrid(op), op.winner)
    IN  /\ op.kind = "saveCompletedGame"
        /\ op.pc = "getItem"
        /\ inflight' = [inflight EXCEPT ![i] =
                          [op EXCEPT !.pc = "setItem",
                                     !.payload = PushCompleted(ParseOr(getItem("completedGames"), <<>>),
                                                               completedGame),
                                     !.gridLive = FALSE, !.grid = <<>>]]
        /\ UNCHANGED <<setup, page, uncaught, route, renderError, gameName, players, failedSave, grid, history, changesMade,
                       isWinnerDeclared, mounted, effect, store, timers, pushed, migration, lastOp, nOps>>

\* mutant of CompletedWrite: the removal is started before the completed
\* collection has been written
CompletedWriteSkipped(i) ==
    LET op == inflight[i]
    IN  /\ op.kind = "saveCompletedGame"
        /\ op.pc = "setItem"
        /\ inflight' = [inflight EXCEPT ![i] =
                          [op EXCEPT !.kind = "removeFromInProgress",
                                     !.pc = "getItem", !.payload = <<>>]]
        /\ UNCHANGED <<setup, page, uncaught, route, renderError, gameName, players, failedSave, grid,
                       history, changesMade, isWinnerDeclared, mounted, effect,
                       store, timers, pushed, migration, lastOp, nOps>>

\* saveCompletedGame after `await AsyncStorage.setItem('completedGames', ...)`:
\* it calls removeFromInProgress, which stops at its getItem
CompletedWrite(i) ==
    LET op == inflight[i]
    IN  /\ op.kind = "saveCompletedGame"
        /\ op.pc = "setItem"
        /\ store' = setItem("completedGames", op.payload)
        /\ inflight' = [inflight EXCEPT ![i] =
                          [op EXCEPT !.kind = "removeFromInProgress",
                                     !.pc = "getItem", !.payload = <<>>]]
        /\ UNCHANGED <<setup, page, uncaught, route, renderError, gameName, players, failedSave, grid, history, changesMade,
                       isWinnerDeclared, mounted, effect, timers, pushed, migration, lastOp, nOps>>

\* removeFromInProgress after `await AsyncStorage.getItem('inProgressGames')`
RemoveRead(i) ==
    LET op == inflight[i]
    IN  /\ op.kind = "removeFromInProgress"
        /\ op.pc = "getItem"
        /\ inflight' = [inflight EXCEPT ![i] =
                          [op EXCEPT !.pc = "setItem",
                                     !.payload = WithoutGame(ParseOr(getItem("inProgressGames"), <<>>),
                                                             gameName)]]
        /\ UNCHANGED <<setup, page, uncaught, route, renderError, gameName, players, failedSave, grid, history, changesMade,
                       isWinnerDeclared, mounted, effect, store, timers, pushed, migration, lastOp, nOps>>

\* removeFromInProgress after its setItem; saveCompletedGame returns
RemoveWrite(i) ==
    LET op == inflight[i]
    IN  /\ op.kind = "removeFromInProgress"
        /\ op.pc = "setItem"
        /\ store' = setItem("inProgressGames", op.payload)
        /\ inflight' = RemoveAt(inflight, i)
        /\ migration' = "done"
        /\ UNCHANGED <<setup, page, uncaught, route, renderError, gameName, players, failedSave, grid, history, changesMade,
                       isWinnerDeclared, mounted, effect, timers, pushed, lastOp, nOps>>

\* mutant of FetchRead: the record's grid is installed, its history is not
FetchReadGridOnly(i) ==
    LET op == inflight[i]
        currentGame == FindGame(ParseOr(getItem("inProgressGames"), <<>>), gameName)
    IN  /\ op.kind = "fetchGameState"
        /\ op.pc = "getItem"
        /\ IF currentGame # <<>> /\ mounted
           THEN /\ grid' = currentGame[1].grid
                /\ effect' = Adjust(effect, "replace")
                /\ inflight' = AdjustAll(RemoveAt(inflight, i), "replace")
                /\ lastOp' = NoOp("reload")
                /\ UNCHANGED history
           ELSE /\ inflight' = RemoveAt(inflight, i)
                /\ UNCHANGED <<grid, history, effect, lastOp>>
        /\ UNCHANGED <<setup, page, uncaught, route, renderError, gameName, players, failedSave, changesMade, isWinnerDeclared,
                       mounted, store, timers, pushed, migration,
                       nOps>>

\* fetchGameState after `await AsyncStorage.getItem('inProgressGames')`
FetchRead(i) ==
    LET op == inflight[i]
        currentGame == FindGame(ParseOr(getItem("inProgressGames"), <<>>), gameName)
    IN  /\ op.kind = "fetchGameState"
        /\ op.pc = "getItem"
        /\ IF currentGame # <<>> /\ mounted
           THEN /\ grid' = currentGame[1].grid
                /\ history' = currentGame[1].history
                /\ effect' = Adjust(effect, "replace")
                /\ inflight' = AdjustAll(RemoveAt(inflight, i), "replace")
                /\ lastOp' = NoOp("reload")
           ELSE /\ inflight' = RemoveAt(inflight, i)
                /\ UNCHANGED <<grid, history, effect, lastOp>>
        /\ UNCHANGED <<setup, page, uncaught, route, renderError, gameName, players, failedSave, changesMade, isWinnerDeclared,
                       mounted, store, timers, pushed, migration,
                       nOps>>

\* mutant of Reject: a save whose read of the collection rejects goes on as
\* if the key were absent, with its own record alone
RejectReadAsEmpty(i) ==
    LET op == inflight[i]
        gameData == GameData(gameName, players, ClosureGrid(op), op.history)
    IN  /\ inflight' = IF op.kind \in {"saveGame", "saveResetGame"} /\ op.pc = "getItem"
                       THEN [inflight EXCEPT ![i] =
                               [op EXCEPT !.pc = "setItem",
                                          !.payload = Upsert(<<>>, gameData),
                                          !.gridLive = FALSE, !.grid = <<>>,
                                          !.histLive = FALSE, !.history = <<>>]]
                       ELSE RemoveAt(inflight, i)
        /\ migration' = IF op.kind \in {"saveCompletedGame", "removeFromInProgress"}
                        THEN "failed" ELSE migration
        /\ failedSave' = (failedSave \/ (/\ op.kind \in {"saveGame", "saveResetGame"}
                                          /\ op.pc = "setItem"))
        /\ uncaught' = IF op.kind = "fetchGameState"
                       THEN Append(uncaught, op.kind) ELSE uncaught
        /\ UNCHANGED <<setup, page, route, renderError, gameName, players, grid, history, changesMade,
                       isWinnerDeclared, mounted, effect, store, timers, pushed,
                       lastOp, nOps>>

\* mutant of Reject: a failed migration step also cancels the pending
\* winner-announcement timer
RejectCancelsHandOff(i) ==
    LET op == inflight[i]
    IN  /\ inflight' = RemoveAt(inflight, i)
        /\ migration' = IF op.kind \in {"saveCompletedGame", "removeFromInProgress"}
                        THEN "failed" ELSE migration
        /\ failedSave' = (failedSave \/ (/\ op.kind \in {"saveGame", "saveResetGame"}
                                          /\ op.pc = "setItem"))
        /\ timers' = IF op.kind \in {"saveCompletedGame", "removeFromInProgress"}
                     THEN <<>> ELSE timers
        /\ uncaught' = IF op.kind = "fetchGameState"
                       THEN Append(uncaught, op.kind) ELSE uncaught
        /\ UNCHANGED <<setup, page, route, renderError, gameName, players, grid, history, changesMade,
                       isWinnerDeclared, mounted, effect, store, pushed,
                       lastOp, nOps>>

\* the AsyncStorage call an async function awaits rejects: the catch block
\* logs and the function returns; fetchGameState has no try/catch and the
\* focus effect calls it without a handler, so its promise rejects unhandled
Reject(i) ==
    LET op == inflight[i]
    IN  /\ inflight' = RemoveAt(inflight, i)
        /\ migration' = IF op.kind \in {"saveCompletedGame", "removeFromInProgress"}
                        THEN "failed" ELSE migration
        /\ failedSave' = (failedSave \/ (/\ op.kind \in {"saveGame", "saveResetGame"}
                                          /\ op.pc = "setItem"))
        /\ uncaught' = IF op.kind = "fetchGameState"
                       THEN Append(uncaught, op.kind) ELSE uncaught
        /\ UNCHANGED <<setup, page, route, renderError, gameName, players, grid, history, changesMade,
                       isWinnerDeclared, mounted, effect, store, timers, pushed,
                       lastOp, nOps>>

\* mutant of TimerFires: the game's name is handed over as the player's name
TimerFiresWrongName ==
    /\ timers # <<>>
    /\ pushed' = Append(pushed, [pathname |-> "/winner-popup",
                                 playerName |-> gameName])
    /\ timers' = Tail(timers)
    /\ UNCHANGED <<setup, page, uncaught, route, renderError, gameName, players, failedSave, grid, history, changesMade,
                   isWinnerDeclared, mounted, effect, inflight, store, migration, lastOp, nOps>>

\* the setTimeout callback of checkForWinner: router.push to /winner-popup
TimerFires ==
    /\ timers # <<>>
    /\ pushed' = Append(pushed, [pathname |-> "/winner-popup",
                                 playerName |-> Head(timers)])
    /\ timers' = Tail(timers)
    /\ UNCHANGED <<setup, page, uncaught, route, renderError, gameName, players, failedSave, grid, history, changesMade,
                   isWinnerDeclared, mounted, effect, inflight, store, migration, lastOp, nOps>>

Next ==
    \/ Tap
    \/ Undo
    \/ ResetConfirm
    \/ ResetCancel
    \/ ResumeFocus
    \/ Leave
    \/ \E i \in 1..Len(inflight) : SaveRead(i)
    \/ \E i \in 1..Len(inflight) : SaveWrite(i)
    \/ \E i \in 1..Len(inflight) : CompletedRead(i)
    \/ \E i \in 1..Len(inflight) : CompletedWrite(i)
    \/ \E i \in 1..Len(inflight) : RemoveRead(i)
    \/ \E i \in 1..Len(inflight) : RemoveWrite(i)
    \/ \E i \in 1..Len(inflight) : FetchRead(i)
    \/ TimerFires

\* the store never rejects a call
Spec == Init /\ [][Next]_vars

\* the event loop runs a setTimeout callback once its delay has passed
Fairness == WF_vars(TimerFires)

SpecLive == Spec /\ Fairness

\* any AsyncStorage call may reject
Fault == \E i \in 1..Len(inflight) : Reject(i)

\* user operations carried out in a session whose store may fail
FaultOps == 3

FaultTap == \E cell \in TapCells : handleCellPress(cell[1], cell[2], FaultOps)

FaultUndo == handleUndo(FaultOps)

FaultLeave == Suspend(FaultOps)

\* a resumed two-player game with its record in the in-progress collection
InitFaulty == Start(Resume(NearWinRecord, <<OtherRecord, NearWinRecord>>, <<>>))

NextFaulty ==
    \/ FaultTap
    \/ FaultUndo
    \/ FaultLeave
    \/ \E i \in 1..Len(inflight) : SaveRead(i)
    \/ \E i \in 1..Len(inflight) : SaveWrite(i)
    \/ \E i \in 1..Len(inflight) : CompletedRead(i)
    \/ \E i \in 1..Len(inflight) : CompletedWrite(i)
    \/ \E i \in 1..Len(inflight) : RemoveRead(i)
    \/ \E i \in 1..Len(inflight) : RemoveWrite(i)
    \/ \E i \in 1..Len(inflight) : FetchRead(i)
    \/ TimerFires
    \/ Fault

SpecFaulty == InitFaulty /\ [][NextFaulty]_vars

\* taps, undos, resets and leaving in a session whose store may fail
EditOps == 2

FaultEditTap == \E cell \in TapCells : handleCellPress(cell[1], cell[2], EditOps)

FaultEditUndo == handleUndo(EditOps)

FaultEditReset == handleResetBoard(EditOps)

FaultEditLeave == Suspend(EditOps)

NextFaultyEdit ==
    \/ FaultEditTap
    \/ FaultEditUndo
    \/ FaultEditReset
    \/ FaultEditLeave
    \/ \E i \in 1..Len(inflight) : SaveRead(i)
    \/ \E i \in 1..Len(inflight) : SaveWrite(i)
    \/ \E i \in 1..Len(inflight) : CompletedRead(i)
    \/ \E i \in 1..Len(inflight) : CompletedWrite(i)
    \/ \E i \in 1..Len(inflight) : RemoveRead(i)
    \/ \E i \in 1..Len(inflight) : RemoveWrite(i)
    \/ \E i \in 1..Len(inflight) : FetchRead(i)
    \/ TimerFires
    \/ Fault

SpecFaultyEdit == InitFaulty /\ [][NextFaultyEdit]_vars

\* user operations carried out around a win whose migration may fail
WinOps == 2

FaultWinTap == \E cell \in TapCells : handleCellPress(cell[1], cell[2], WinOps)

FaultWinLeave == Suspend(WinOps)

NextFaultyWin ==
    \/ FaultWinTap
    \/ FaultWinLeave
    \/ \E i \in 1..Len(inflight) : SaveRead(i)
    \/ \E i \in 1..Len(inflight) : SaveWrite(i)
    \/ \E i \in 1..Len(inflight) : CompletedRead(i)
    \/ \E i \in 1..Len(inflight) : CompletedWrite(i)
    \/ \E i \in 1..Len(inflight) : RemoveRead(i)
    \/ \E i \in 1..Len(inflight) : RemoveWrite(i)
    \/ \E i \in 1..Len(inflight) : FetchRead(i)
    \/ TimerFires
    \/ Fault

\* any store call may reject, and the event loop runs due setTimeout callbacks
SpecFaultyLive == InitFaulty /\ [][NextFaultyWin]_vars /\ Fairness

----------------------------------------------------------------------------
(* The 21-tap scenario: a two-player session from Game Setup in which      *)
(* column 0 is tapped three times per row, rows in order, with undos.      *)

\* operations carried out in the scenario: its 21 taps and two more
ScriptOps == 23

\* the scenario undoes only moves after this many
ScriptUndoFrom == 18

\* the cell the scenario taps next
ScriptCell == <<Min(Len(history) \div MaxTaps, Len(rows) - 1), 0>>

ScriptTap == handleCellPress(ScriptCell[1], ScriptCell[2], ScriptOps)

ScriptUndo == Len(history) > ScriptUndoFrom /\ handleUndo(ScriptOps)

ScriptLeave == Suspend(ScriptOps)

InitScript == Start(Setup(Players2, <<>>, <<>>))

NextScript ==
    \/ ScriptTap
    \/ ScriptUndo
    \/ ScriptLeave
    \/ \E i \in 1..Len(inflight) : SaveRead(i)
    \/ \E i \in 1..Len(inflight) : SaveWrite(i)
    \/ \E i \in 1..Len(inflight) : CompletedRead(i)
    \/ \E i \in 1..Len(inflight) : CompletedWrite(i)
    \/ \E i \in 1..Len(inflight) : RemoveRead(i)
    \/ \E i \in 1..Len(inflight) : RemoveWrite(i)
    \/ \E i \in 1..Len(inflight) : FetchRead(i)
    \/ TimerFires

SpecScript == InitScript /\ [][NextScript]_vars

----------------------------------------------------------------------------
(* A new two-player game in which two cells are tapped, moves are undone    *)
(* and the board is reset, in any order; the fetch of the focus effect has  *)
(* resolved before the first press.                                         *)

\* operations carried out: enough to tap a cell past 3 and undo
ReplayOps == 5

ReplayCells == { <<0, 0>>, <<6, 1>> }

NoFetchPending ==
    \A i \in 1..Len(inflight) : inflight[i].kind # "fetchGameState"

ReplayTap ==
    /\ NoFetchPending
    /\ \E cell \in ReplayCells : handleCellPress(cell[1], cell[2], ReplayOps)

ReplayUndo == NoFetchPending /\ handleUndo(ReplayOps)

ReplayReset == NoFetchPending /\ handleResetBoard(ReplayOps)

InitReplay == Start(Setup(Players2, <<OtherRecord>>, <<>>))

NextReplay ==
    \/ ReplayTap
    \/ ReplayUndo
    \/ ReplayReset
    \/ \E i \in 1..Len(inflight) : SaveRead(i)
    \/ \E i \in 1..Len(inflight) : SaveWrite(i)
    \/ \E i \in 1..Len(inflight) : FetchRead(i)

SpecReplay == InitReplay /\ [][NextReplay]_vars

----------------------------------------------------------------------------
(* Opening the screen: the first render of GameScreenPage parses the route *)
(* parameters; an exception thrown while rendering ends the session before *)
(* it has started.                                                         *)

Players1 == <<"Player 1">>

Players5 == <<"Player 1", "Player 2", "Player 3", "Player 4", "Player 5">>

\* the parameters the screen is opened with
PlayersParams ==
    { Absent, Malformed, Stringify(Players1), Stringify(Players2),
      Stringify(Players3), Stringify(Players4), Stringify(Players5) }

GridParams ==
    { Absent, Malformed, Stringify(initialGridState(Players2)),
      Stringify(NearWinGrid) }

HistoryParams ==
    { Absent, Malformed, Stringify(<<>>), Stringify(NearWinHistory) }

\* the first render throws
MountThrows ==
    \/ ParseThrows(route.players)
    \/ ParseThrows(route.grid)
    \/ ParseThrows(route.history)

\* const players = playersParam ? JSON.parse(playersParam) : ['Player 1', 'Player 2']
MountPlayers == ParseOr(route.players, DefaultPlayers)

\* useState(gridParam ? JSON.parse(gridParam) : initialGridState)
MountGrid == ParseOr(route.grid, initialGridState(MountPlayers))

\* useState(historyParam ? JSON.parse(historyParam) : [])
MountHistory == ParseOr(route.history, <<>>)

\* the screen is about to be rendered for the first time
InitMount ==
    /\ setup = NoSetup
    /\ page = NoPage
    /\ uncaught = <<>>
    /\ route \in [players : PlayersParams, grid : GridParams,
                  history : HistoryParams]
    /\ renderError = FALSE
    /\ gameName = "G"
    /\ players = <<>>
    /\ grid = <<>>
    /\ history = <<>>
    /\ changesMade = FALSE
    /\ isWinnerDeclared = FALSE
    /\ mounted = FALSE
    /\ effect = EffectOf(FALSE, FALSE, <<>>)
    /\ inflight = <<>>
    /\ store = Stored(<<>>, <<>>)
    /\ timers = <<>>
    /\ pushed = <<>>
    /\ migration = "none"
    /\ failedSave = FALSE
    /\ lastOp = NoOp("open")
    /\ nOps = 0

\* the first render and its effects
MountScreen ==
    /\ ~mounted
    /\ ~renderError
    /\ lastOp.op = "open"
    /\ IF MountThrows
       THEN /\ renderError' = TRUE
            /\ UNCHANGED <<players, grid, history, mounted, effect, inflight,
                           lastOp>>
       ELSE /\ players' = MountPlayers
            /\ grid' = MountGrid
            /\ history' = MountHistory
            /\ mounted' = TRUE
            /\ effect' = EffectOf(FALSE, FALSE, MountHistory)
            /\ inflight' = <<AsyncOp("fetchGameState",
                                     RenderClosure(MountHistory), "")>>
            /\ lastOp' = NoOp("mount")
            /\ UNCHANGED renderError
    /\ UNCHANGED <<setup, page, uncaught, route, gameName, changesMade,
                   isWinnerDeclared, store, timers, pushed, migration,
                   failedSave, nOps>>

NextMount ==
    \/ MountScreen
    \/ \E i \in 1..Len(inflight) : FetchRead(i)

SpecMount == InitMount /\ [][NextMount]_vars

----------------------------------------------------------------------------
(* The Game History screen (game-history.js): the two lists it shows, its  *)
(* loadGames on mount, Resume and Delete on a listed game.                 *)

\* an async function of the screen that has reached its first await
PageOp(kind, game, type) ==
    [kind |-> kind, pc |-> "getItem",
     gridLive |-> FALSE, grid |-> <<>>, histLive |-> FALSE, history |-> <<>>,
     winner |-> "", payload |-> <<>>, game |-> game, type |-> type]

\* the list a section of the screen shows, and the key it is stored under
KeyOf(type) == IF type = "inProgress" THEN "inProgressGames" ELSE "completedGames"

\* a store in which these keys were never set
Unset(st, keys) ==
    [inProgressGames |-> IF "inProgressGames" \in keys THEN <<>> ELSE st.inProgressGames,
     completedGames |-> IF "completedGames" \in keys THEN <<>> ELSE st.completedGames,
     absent |-> keys]

\* the resumed game as saveCompletedGame records its win
WonRecord ==
    CompletedGame("G", Players2, TapGrid(NearWinGrid, 6, 0), "Player 1")

\* what earlier sessions left: a game in progress next to another one and a
\* completed game; the same completed game recorded twice around another;
\* and stores of a new installation, with one key or both never set
HistoryStores ==
    { Stored(<<OtherRecord, NearWinRecord>>, <<OldCompleted>>),
      Stored(<<OtherRecord>>, <<OldCompleted, WonRecord, OldCompleted>>),
      Unset(Stored(<<>>, <<OldCompleted>>), {"inProgressGames"}),
      Unset(Stored(<<OtherRecord>>, <<>>), {"completedGames"}),
      Unset(Stored(<<>>, <<>>), StoreKeys) }

\* the screen after its first render and effects, loadGames at its first await
OpenHistory(st) ==
    /\ setup = NoSetup
    /\ page = [open |-> TRUE, inProgressGames |-> <<>>, completedGames |-> <<>>]
    /\ uncaught = <<>>
    /\ route = [players |-> Absent, grid |-> Absent, history |-> Absent]
    /\ renderError = FALSE
    /\ gameName = ""
    /\ players = <<>>
    /\ grid = <<>>
    /\ history = <<>>
    /\ changesMade = FALSE
    /\ isWinnerDeclared = FALSE
    /\ mounted = FALSE
    /\ effect = EffectOf(FALSE, FALSE, <<>>)
    /\ inflight = <<PageOp("loadGames", <<>>, "")>>
    /\ store = st
    /\ timers = <<>>
    /\ pushed = <<>>
    /\ migration = "none"
    /\ failedSave = FALSE
    /\ lastOp = NoOp("history")
    /\ nOps = 0

\* what the game screen's variables keep while the history screen acts
SessionIdle ==
    UNCHANGED <<setup, uncaught, route, renderError, gameName, players, grid,
                history, changesMade, isWinnerDeclared, mounted, effect,
                timers, migration, failedSave>>

\* user operations on the history screen
PageOps == 2

\* loadGames after `await AsyncStorage.getItem('inProgressGames')`
LoadReadInProgress(i) ==
    LET op == inflight[i]
    IN  /\ op.kind = "loadGames"
        /\ op.pc = "getItem"
        /\ inflight' = [inflight EXCEPT ![i] =
                          [op EXCEPT !.pc = "getItem2",
                                     !.payload = getItem("inProgressGames")]]
        /\ SessionIdle
        /\ UNCHANGED <<page, store, pushed, lastOp, nOps>>

\* loadGames after `await AsyncStorage.getItem('completedGames')`:
\* setInProgressGames, setCompletedGames
LoadReadCompleted(i) ==
    LET op == inflight[i]
    IN  /\ op.kind = "loadGames"
        /\ op.pc = "getItem2"
        /\ page' = [page EXCEPT
                      !.inProgressGames = ParseOr(op.payload, <<>>),
                      !.completedGames = ParseOr(getItem("completedGames"), <<>>)]
        /\ inflight' = RemoveAt(inflight, i)
        /\ SessionIdle
        /\ UNCHANGED <<store, pushed, lastOp, nOps>>

\* Resume pressed on the k-th game in progress: router.push to the game screen
ResumePress(k) ==
    /\ page.open
    /\ nOps < PageOps
    /\ k \in 1..Len(page.inProgressGames)
    /\ LET item == page.inProgressGames[k]
       IN  pushed' = Append(pushed,
                        [pathname |-> "/game-screen", gameName |-> item.gameName,
                         params |-> RouteOf(item.players, item.grid, item.history)])
    /\ nOps' = nOps + 1
    /\ lastOp' = NoOp("resume")
    /\ SessionIdle
    /\ UNCHANGED <<page, inflight, store>>

\* confirmDelete(item, type), "Delete" pressed: deleteGame runs to its getItem
DeletePress(k, type) ==
    /\ page.open
    /\ nOps < PageOps
    /\ Len(inflight) < MaxInFlight
    /\ k \in 1..Len(page[KeyOf(type)])
    /\ inflight' = Append(inflight,
                          PageOp("deleteGame", page[KeyOf(type)][k], type))
    /\ nOps' = nOps + 1
    /\ lastOp' = [NoOp("delete") EXCEPT !.accepted = TRUE]
    /\ SessionIdle
    /\ UNCHANGED <<page, store, pushed>>

\* confirmDelete(item, type), "Cancel" pressed
DeleteCancel ==
    /\ page.open
    /\ nOps < PageOps
    /\ lastOp' = NoOp("keep")
    /\ SessionIdle
    /\ UNCHANGED <<page, inflight, store, pushed, nOps>>

\* gamesList.filter((g) => JSON.stringify(g) !== JSON.stringify(game))
WithoutEqual(gamesList, game) == SelectSeq(gamesList, LAMBDA g : g # game)

\* deleteGame after its `await AsyncStorage.getItem(...)`
DeleteRead(i) ==
    LET op == inflight[i]
    IN  /\ op.kind = "deleteGame"
        /\ op.pc = "getItem"
        /\ inflight' = [inflight EXCEPT ![i] =
                          [op EXCEPT !.pc = "setItem",
                                     !.payload = WithoutEqual(
                                         ParseOr(getItem(KeyOf(op.type)), <<>>),
                                         op.game)]]
        /\ SessionIdle
        /\ UNCHANGED <<page, store, pushed, lastOp, nOps>>

\* deleteGame after its `await AsyncStorage.setItem(...)`: the list is set
DeleteWrite(i) ==
    LET op == inflight[i]
    IN  /\ op.kind = "deleteGame"
        /\ op.pc = "setItem"
        /\ store' = setItem(KeyOf(op.type), op.payload)
        /\ page' = [page EXCEPT ![KeyOf(op.type)] = op.payload]
        /\ inflight' = RemoveAt(inflight, i)
        /\ SessionIdle
        /\ UNCHANGED <<pushed, lastOp, nOps>>

InitHistory == \E st \in HistoryStores : OpenHistory(st)

NextHistory ==
    \/ \E i \in 1..Len(inflight) : LoadReadInProgress(i)
    \/ \E i \in 1..Len(inflight) : LoadReadCompleted(i)
    \/ \E k \in 1..2 : ResumePress(k)
    \/ \E k \in 1..3, type \in {"inProgress", "completed"} : DeletePress(k, type)
    \/ DeleteCancel
    \/ \E i \in 1..Len(inflight) : DeleteRead(i)
    \/ \E i \in 1..Len(inflight) : DeleteWrite(i)

SpecHistory == InitHistory /\ [][NextHistory]_vars

\* the history screen, or a session of the game screen, opened on a store
\* whose calls may reject and whose keys may never have been set
InitRead ==
    \/ InitHistory
    \/ StartOn(Setup(Players2, <<>>, <<>>), Unset(Stored(<<>>, <<>>), StoreKeys))
    \/ StartOn(Resume(NearWinRecord, <<OtherRecord, NearWinRecord>>, <<>>),
               Stored(<<OtherRecord, NearWinRecord>>, <<>>))

NextRead ==
    \/ NextHistory
    \/ \E i \in 1..Len(inflight) : FetchRead(i)
    \/ Fault

SpecRead == InitRead /\ [][NextRead]_vars

----------------------------------------------------------------------------
(* The Game Setup screen (game-setup.js): the game's name, the list of     *)
(* players, and Start Game. A text is the sequence of its characters.      *)

\* useState(() => 'New Game')
NewGame == <<"N", "e", "w", " ", "G", "a", "m", "e">>

\* what the user can type as the game's name: nothing, blanks, a name
\* with a blank before it, or the default put back
GameNames == { <<>>, <<" ">>, <<" ", " ">>, <<" ", "G">>, NewGame }

\* what the user can type as a player's name
TypedNames == { "Ann" }

RECURSIVE TrimStart(_)
TrimStart(text) ==
    IF text # <<>> /\ Head(text) = " " THEN TrimStart(Tail(text)) ELSE text

RECURSIVE TrimEnd(_)
TrimEnd(text) ==
    IF text # <<>> /\ Last(text) = " "
    THEN TrimEnd(SubSeq(text, 1, Len(text) - 1)) ELSE text

\* gameName.trim()
Trim(text) == TrimEnd(TrimStart(text))

\* `Player ${prevPlayers.length + 1}`
PlayerName(n) ==
    CASE n = 1 -> "Player 1" [] n = 2 -> "Player 2" [] n = 3 -> "Player 3"
      [] n = 4 -> "Player 4" [] OTHER -> "Player 5"

\* the screen after its first render
OpenSetup ==
    /\ setup = [open |-> TRUE, gameName |-> NewGame,
                players |-> <<PlayerName(1), PlayerName(2)>>]
    /\ page = NoPage
    /\ uncaught = <<>>
    /\ route = [players |-> Absent, grid |-> Absent, history |-> Absent]
    /\ renderError = FALSE
    /\ gameName = ""
    /\ players = <<>>
    /\ grid = <<>>
    /\ history = <<>>
    /\ changesMade = FALSE
    /\ isWinnerDeclared = FALSE
    /\ mounted = FALSE
    /\ effect = EffectOf(FALSE, FALSE, <<>>)
    /\ inflight = <<>>
    /\ store = Stored(<<>>, <<>>)
    /\ timers = <<>>
    /\ pushed = <<>>
    /\ migration = "none"
    /\ failedSave = FALSE
    /\ lastOp = NoOp("setup")
    /\ nOps = 0

\* what the setup screen's operations leave alone
SetupFrame ==
    UNCHANGED <<page, uncaught, route, renderError, gameName, players, grid,
                history, changesMade, isWinnerDeclared, mounted, effect,
                inflight, store, timers, migration, failedSave>>

\* mutant of addPlayer: the limit of four players is not looked at
addPlayerNoLimit(limit) ==
    /\ setup.open
    /\ nOps < limit
    /\ setup' = [setup EXCEPT
                   !.players = Append(@, PlayerName(Len(@) + 1))]
    /\ lastOp' = [NoOp("addPlayer") EXCEPT !.accepted = TRUE]
    /\ nOps' = nOps + 1
    /\ pushed' = pushed
    /\ SetupFrame

\* addPlayer, "Add Player" pressed; at four players an alert and no change
addPlayer(limit) ==
    /\ setup.open
    /\ nOps < limit
    /\ IF Len(setup.players) < 4
       THEN /\ setup' = [setup EXCEPT
                           !.players = Append(@, PlayerName(Len(@) + 1))]
            /\ lastOp' = [NoOp("addPlayer") EXCEPT !.accepted = TRUE]
       ELSE /\ lastOp' = NoOp("addPlayer")
            /\ setup' = setup
    /\ nOps' = nOps + 1
    /\ pushed' = pushed
    /\ SetupFrame

\* prevPlayers.filter((_, i) => i !== index)
WithoutIndex(prevPlayers, index) ==
    [i \in 1..(Len(prevPlayers) - 1) |->
        IF i <= index THEN prevPlayers[i] ELSE prevPlayers[i + 1]]

\* removePlayer(index); at two players an alert and no change
removePlayer(index, limit) ==
    /\ setup.open
    /\ nOps < limit
    /\ index \in 0..(Len(setup.players) - 1)
    /\ IF Len(setup.players) > 2
       THEN /\ setup' = [setup EXCEPT !.players = WithoutIndex(@, index)]
            /\ lastOp' = [NoOp("removePlayer") EXCEPT !.accepted = TRUE,
                                                     !.colIndex = index]
       ELSE /\ lastOp' = [NoOp("removePlayer") EXCEPT !.colIndex = index]
            /\ setup' = setup
    /\ nOps' = nOps + 1
    /\ pushed' = pushed
    /\ SetupFrame

\* handlePlayerNameChange(name, index)
handlePlayerNameChange(name, index, limit) ==
    /\ setup.open
    /\ nOps < limit
    /\ index \in 0..(Len(setup.players) - 1)
    /\ setup' = [setup EXCEPT !.players[index + 1] = name]
    /\ lastOp' = [NoOp("rename") EXCEPT !.accepted = TRUE, !.colIndex = index]
    /\ nOps' = nOps + 1
    /\ pushed' = pushed
    /\ SetupFrame

\* onChangeText={setGameName}
setGameName(text, limit) ==
    /\ setup.open
    /\ nOps < limit
    /\ setup' = [setup EXCEPT !.gameName = text]
    /\ lastOp' = [NoOp("setGameName") EXCEPT !.accepted = TRUE]
    /\ nOps' = nOps + 1
    /\ pushed' = pushed
    /\ SetupFrame

\* generateInitialGridState()
generateInitialGridState(ps) ==
    [r \in 1..Len(rows) |-> [c \in 1..Len(ps) |-> [taps |-> 0]]]

\* mutant of startGame: the name is looked at without trim()
startGameUntrimmed(limit) ==
    /\ setup.open
    /\ nOps < limit
    /\ IF setup.gameName = <<>> \/ Len(setup.players) < 2
       THEN /\ lastOp' = NoOp("startGame")
            /\ pushed' = pushed
       ELSE /\ pushed' = Append(pushed,
                   [pathname |-> "/game-screen",
                    gameName |-> IF setup.gameName # <<>>
                                 THEN setup.gameName ELSE NewGame,
                    params |-> RouteOf(setup.players,
                                       generateInitialGridState(setup.players),
                                       <<>>)])
            /\ lastOp' = [NoOp("startGame") EXCEPT !.accepted = TRUE]
    /\ nOps' = nOps + 1
    /\ setup' = setup
    /\ SetupFrame

\* startGame, "Start Game" pressed: an alert for a blank name, else
\* router.push to the game screen
startGame(limit) ==
    /\ setup.open
    /\ nOps < limit
    /\ IF Trim(setup.gameName) = <<>> \/ Len(setup.players) < 2
       THEN /\ lastOp' = NoOp("startGame")
            /\ pushed' = pushed
       ELSE /\ pushed' = Append(pushed,
                   [pathname |-> "/game-screen",
                    gameName |-> IF setup.gameName # <<>>
                                 THEN setup.gameName ELSE NewGame,
                    params |-> RouteOf(setup.players,
                                       generateInitialGridState(setup.players),
                                       <<>>)])
            /\ lastOp' = [NoOp("startGame") EXCEPT !.accepted = TRUE]
    /\ nOps' = nOps + 1
    /\ setup' = setup
    /\ SetupFrame

\* user operations on the setup screen
SetupOps == 4

NextSetup ==
    \/ addPlayer(SetupOps)
    \/ \E index \in 0..3 : removePlayer(index, SetupOps)
    \/ \E name \in TypedNames, index \in 0..3 :
          handlePlayerNameChange(name, index, SetupOps)
    \/ \E text \in GameNames : setGameName(text, SetupOps)
    \/ startGame(SetupOps)

SpecSetup == OpenSetup /\ [][NextSetup]_vars

\* Add Player and Remove only, no name typed
NamingOps == 6

NextNaming ==
    \/ addPlayer(NamingOps)
    \/ \E index \in 0..3 : removePlayer(index, NamingOps)

SpecNaming == OpenSetup /\ [][NextNaming]_vars

----------------------------------------------------------------------------
(* Properties *)

\* winners signalled by checkForWinner so far, in order
Signals == [i \in 1..Len(pushed) |-> pushed[i].playerName] \o timers

\* the last operation was a tap that handleCellPress carried out
TapDone == lastOp.op = "tap" /\ lastOp.accepted

\* the last two operations were a tap and the undo of it
TapUndone == lastOp.op = "undo" /\ lastOp.afterTap

ColumnClosed(g, colIndex) ==
    \A r \in 1..NumRows : g[r][colIndex + 1].taps = 3

NoDuplicateNames(games) ==
    \A i, j \in 1..Len(games) : games[i].gameName = games[j].gameName => i = j

\* C1: in every reachable state the in-memory grid has exactly 7 rows, every
\* row has exactly players.length cells, and every cell has taps in 0..3.
C1_GridShape ==
    /\ Len(grid) = NumRows
    /\ \A r \in 1..Len(grid) :
          /\ Len(grid[r]) = Len(players)
          /\ \A c \in 1..Len(grid[r]) : grid[r][c].taps \in 0..3

\* C2: a tap on an in-range cell in ACTIVE state sets that cell to
\* min(taps + 1, 3) and leaves every other cell unchanged; no tap leaves a
\* cell with taps > 3.
C2_TapSetsCell ==
    TapDone =>
        /\ Len(grid) = Len(lastOp.grid)
        /\ \A r \in 1..Len(grid) :
              /\ Len(grid[r]) = Len(lastOp.grid[r])
              /\ \A c \in 1..Len(grid[r]) :
                    /\ grid[r][c].taps <= 3
                    /\ grid[r][c].taps =
                          IF r = lastOp.rowIndex + 1 /\ c = lastOp.colIndex + 1
                          THEN Min(lastOp.grid[r][c].taps + 1, 3)
                          ELSE lastOp.grid[r][c].taps

\* C2 witness: a tap has been carried out on a cell that already had 3 marks
C2_Witness ==
    /\ TapDone
    /\ CellTaps(lastOp.grid, lastOp.rowIndex, lastOp.colIndex) = 3
    /\ CellTaps(grid, lastOp.rowIndex, lastOp.colIndex) = 3

\* C3: undo is the exact inverse of a tap that produces no win: after a tap
\* and the undo of it the grid and the history are those the tap started
\* from; and from every ACTIVE state, for every in-range cell, a tap followed
\* by undo gives back the grid and the history of that state.
C3_UndoInvertsTap ==
    /\ TapUndone => grid = lastOp.grid /\ history = lastOp.history
    /\ ~isWinnerDeclared =>
          \A rowIndex \in 0..(Len(rows) - 1), colIndex \in 0..(Len(players) - 1) :
             LET g2 == TapGrid(grid, rowIndex, colIndex)
                 h2 == TapHistory(grid, history, rowIndex, colIndex)
             IN  ~isWinner(g2, colIndex) =>
                    /\ UndoGrid(g2, h2) = grid
                    /\ UndoHistory(h2) = history

\* C3 witness: a tap on a cell that already had 3 marks has been undone
C3_Witness ==
    /\ TapUndone
    /\ CellTaps(lastOp.grid, lastOp.rowIndex, lastOp.colIndex) = 3

\* C4: a tap on column c signals a winner if and only if after the tap all 7
\* cells of column c have taps = 3, and the winner signalled is the player at
\* column c.
C4_WinnerIffColumnClosed ==
    TapDone =>
        /\ (Signals # <<>>) <=> ColumnClosed(grid, lastOp.colIndex)
        /\ isWinnerDeclared <=> ColumnClosed(grid, lastOp.colIndex)
        /\ Signals # <<>> => Signals = <<players[lastOp.colIndex + 1]>>

\* C4 witness: a tap has closed its column and signalled the winner
C4_Witness ==
    /\ TapDone
    /\ ColumnClosed(grid, lastOp.colIndex)
    /\ Signals = <<players[lastOp.colIndex + 1]>>

\* a step in which handleCellPress is carried out
TapStep == nOps' = nOps + 1 /\ lastOp'.op = "tap"

\* C5: in a session started from a fresh grid the winner signal fires at most
\* once, exactly on the first tap after which the tapped column is closed (on
\* the 21st tap of the scenario, naming the player at column 0); the session
\* is then WON, and WON is terminal.
C5_WinnerOnce ==
    /\ [](/\ Len(Signals) <= 1
          /\ isWinnerDeclared <=> Len(Signals) = 1
          /\ nOps = Len(history) =>
                /\ isWinnerDeclared <=> Len(history) = 21
                /\ isWinnerDeclared => Signals = <<players[1]>>)
    /\ [][isWinnerDeclared => isWinnerDeclared']_vars
    /\ [][Len(Signals') > Len(Signals) <=>
            (TapStep /\ ColumnClosed(grid', lastOp'.colIndex))]_vars

\* C5 witness: the 21 taps of the scenario have been made and the one winner
\* signal has named the player at column 0
C5_Witness ==
    /\ nOps = 21
    /\ Len(history) = 21
    /\ isWinnerDeclared
    /\ Signals = <<"Player 1">>

\* C6: once the session is WON, tap, undo and reset leave the in-memory grid
\* and history and both collections unchanged.
C6_WonRefusesInput ==
    [][(isWinnerDeclared /\ lastOp' # lastOp
            /\ lastOp'.op \in {"tap", "undo", "reset"})
        => (grid' = grid /\ history' = history /\ store' = store)]_vars

\* C7: after the completion transition has finished, no record with the
\* session's gameName is in the in-progress collection while one is in the
\* completed collection, in every later state and under every interleaving.
C7_NotInBothAfterMigration ==
    migration = "done" =>
        /\ CountName(store.inProgressGames, gameName) = 0
        /\ CountName(store.completedGames, gameName) >= 1

\* C8: when migration finishes, the in-progress collection contains no record
\* with the session's gameName and the completed collection contains exactly
\* one, whose winner is the player at the winning column.
C8_MigrationResult ==
    [][(migration # "done" /\ migration' = "done") =>
        /\ CountName(store'.inProgressGames, gameName) = 0
        /\ CountName(store'.completedGames, gameName) = 1
        /\ \A i \in 1..Len(store'.completedGames) :
              store'.completedGames[i].gameName = gameName =>
                 store'.completedGames[i].winner = Head(Signals)]_vars

\* C9: upsert into the in-progress collection is idempotent by gameName:
\* saving the same record twice leaves the same collection as saving it once,
\* with exactly one record of that name, appended last, the records of other
\* names kept.
C9_UpsertIdempotent ==
    LET games == store.inProgressGames
        gameData == GameData(gameName, players, grid, history)
    IN  \A list \in {games, games \o games, <<>>} :
           LET once == Upsert(list, gameData)
           IN  /\ Upsert(once, gameData) = once
               /\ CountName(once, gameName) = 1
               /\ Last(once) = gameData
               /\ WithoutGame(once, gameName) = WithoutGame(list, gameName)

\* C9 witness: the save of an undo and the save of the effect's cleanup that
\* follows it have both landed, over an earlier record of the game
C9_Witness ==
    /\ lastOp.op = "undo"
    /\ lastOp.accepted
    /\ inflight = <<>>
    /\ ~changesMade
    /\ CountName(store.inProgressGames, gameName) = 1
    /\ Last(store.inProgressGames) = GameData(gameName, players, grid, history)
    /\ Len(store.inProgressGames) = 2

\* C10: neither collection ever holds two records with the same gameName.
C10_UniqueNames ==
    /\ NoDuplicateNames(store.inProgressGames)
    /\ NoDuplicateNames(store.completedGames)

\* the screen has been left and every async function it started has returned
Settled == ~mounted /\ inflight = <<>>

\* C11: when a session that is not won and has pending changes is left after
\* taps and undos, and the store has taken the write, the in-progress record
\* of its gameName holds exactly the grid and the history the session had in
\* memory when it was left.
C11_SaveResumeRoundTrip ==
    (Settled /\ ~isWinnerDeclared /\ changesMade) =>
        FindGame(store.inProgressGames, gameName)
            = <<GameData(gameName, players, grid, history)>>

\* the record a reset is to leave in the in-progress collection
FreshRecord == GameData(gameName, players, initialGridState(players), <<>>)

\* C12: a confirmed reset sets the in-memory grid to the fresh all-zero grid
\* of 7 rows and players.length columns and the history to empty, starts its
\* save in the same step whether or not changes were pending, and the
\* collection that save writes holds, under the session's gameName, a record
\* with that fresh grid and an empty history.
C12_ResetPersistsFresh ==
    /\ (lastOp.op = "reset" /\ lastOp.accepted) =>
          /\ grid = initialGridState(players)
          /\ history = <<>>
    /\ \A i \in 1..Len(inflight) :
          (inflight[i].kind = "saveResetGame" /\ inflight[i].pc = "setItem") =>
             FindGame(inflight[i].payload, gameName) = <<FreshRecord>>

\* C13: cancelling the reset confirmation changes nothing: the grid, the
\* history, the pending-changes flag, the winner flag and both collections
\* are the same before and after.
C13_CancelChangesNothing ==
    [][(lastOp'.op = "cancel" /\ lastOp' # lastOp) =>
          UNCHANGED <<grid, history, changesMade, isWinnerDeclared, store,
                      inflight, effect>>]_vars

\* C13 witness: a reset has been cancelled in a session with marks on the
\* board and changes pending
C13_Witness ==
    /\ lastOp.op = "cancel"
    /\ changesMade
    /\ history # <<>>
    /\ grid # initialGridState(players)

FetchCount(ops) ==
    Cardinality({i \in 1..Len(ops) : ops[i].kind = "fetchGameState"})

\* a step in which a fetchGameState started by a focus continues after its read
FetchStep == mounted /\ FetchCount(inflight') < FetchCount(inflight)

\* C14: when the fetchGameState of a focus has read the in-progress
\* collection: if it holds a record with the session's gameName, the grid and
\* the history in memory become exactly that record's grid and history,
\* whatever was edited in memory; if it holds none, they are unchanged.
C14_FocusLoadsDurableCopy ==
    [][FetchStep =>
          LET currentGame == FindGame(store.inProgressGames, gameName)
          IN  IF currentGame # <<>>
              THEN /\ grid' = currentGame[1].grid
                   /\ history' = currentGame[1].history
              ELSE UNCHANGED <<grid, history>>]_vars

\* C14 witness: a reload has replaced a grid that had been edited in memory
\* and not yet saved by the stored record's grid and history
C14_Witness ==
    LET currentGame == FindGame(store.inProgressGames, gameName)
    IN  /\ lastOp.op = "reload"
        /\ changesMade
        /\ ~isWinnerDeclared
        /\ nOps > 0
        /\ currentGame # <<>>
        /\ grid = currentGame[1].grid
        /\ history = currentGame[1].history

\* after the step, a save started by the step is at its read and is to write
\* the record of the grid and the history now in memory
SaveOfCurrentStarted ==
    \E i \in (Len(inflight) + 1)..Len(inflight') :
        LET op == inflight'[i]
        IN  /\ op.kind \in {"saveGame", "saveResetGame"}
            /\ op.pc = "getItem"
            /\ (IF op.gridLive THEN grid' ELSE op.grid) = grid'
            /\ op.history = history'

\* a step in which a handler of the given kinds is carried out without a win
EditStep(kinds) ==
    /\ nOps' = nOps + 1
    /\ lastOp'.op \in kinds
    /\ lastOp'.accepted
    /\ ~isWinnerDeclared'

\* C15: every tap, every undo and every confirmed reset carried out in ACTIVE
\* state starts, by itself, an upsert of the session's current record (the
\* grid and history after the action) into the in-progress collection.
C15_EveryEditPersists ==
    [][EditStep({"tap", "undo", "reset"}) => SaveOfCurrentStarted]_vars

\* the step of the winning tap
WinStep == isWinnerDeclared' /\ ~isWinnerDeclared

\* C16: the winning tap starts the move to the completed collection and sets
\* the timer of the hand-off; the hand-off is issued later, by the timer,
\* after the move was started; it is eventually issued, exactly once, and its
\* playerName is the name of the player at the winning column.
C16_HandOffAfterMigrationStart ==
    /\ [](Len(pushed) + Len(timers) = IF isWinnerDeclared THEN 1 ELSE 0)
    /\ [][WinStep =>
            /\ migration' = "running"
            /\ \E i \in 1..Len(inflight') :
                  /\ inflight'[i].kind = "saveCompletedGame"
                  /\ inflight'[i].winner = players[lastOp'.colIndex + 1]
            /\ pushed' = <<>>
            /\ timers' = <<players[lastOp'.colIndex + 1]>>]_vars
    /\ [][pushed' # pushed =>
            /\ migration # "none"
            /\ pushed' = Append(pushed, [pathname |-> "/winner-popup",
                                         playerName |-> Head(timers)])]_vars
    /\ (isWinnerDeclared ~> (Len(pushed) = 1 /\ timers = <<>>))

\* C16 witness: the hand-off has been issued with the winner's name while the
\* move to the completed collection, started before it, is still running
C16_Witness ==
    /\ isWinnerDeclared
    /\ timers = <<>>
    /\ pushed = <<[pathname |-> "/winner-popup", playerName |-> "Player 1"]>>
    /\ migration = "running"

\* a step in which the setItem of a save of the in-progress record is rejected
SaveFailStep == failedSave' /\ ~failedSave

\* a step that starts a save of the in-progress record: spawned async
\* functions are appended, so the save started is the last one in flight
SaveStartStep ==
    /\ inflight' # <<>>
    /\ Last(inflight').kind \in {"saveGame", "saveResetGame"}
    /\ Last(inflight').pc = "getItem"
    /\ Cardinality({i \in 1..Len(inflight') : inflight'[i].pc = "getItem"
                        /\ inflight'[i].kind \in {"saveGame", "saveResetGame"}})
         > Cardinality({i \in 1..Len(inflight) : inflight[i].pc = "getItem"
                        /\ inflight[i].kind \in {"saveGame", "saveResetGame"}})

\* C17: when the write of a save of the in-progress collection fails, nothing
\* else happens: the grid, the history and the winner flag in memory are
\* unchanged, the collections are unchanged and the pending-changes flag
\* stays as it was (set); and the next save that is started is to write the
\* grid and the history then in memory.
C17_FailedSaveRetried ==
    /\ [][SaveFailStep =>
            UNCHANGED <<grid, history, changesMade, isWinnerDeclared,
                        mounted, store>>]_vars
    /\ [][(failedSave /\ SaveStartStep) =>
            LET op == Last(inflight')
            IN  /\ (IF op.gridLive THEN grid' ELSE op.grid) = grid'
                /\ op.history = history']_vars

\* the first render has been attempted
Opened == mounted \/ renderError

\* C18: when the players, grid or history parameter is a text that does not
\* parse, the session does not fail: it starts, not won, with the 2 default
\* players, a fresh all-zero grid of 7 rows and 2 columns and an empty
\* history.
C18_ParseFailureFallsBack ==
    (Opened /\ MountThrows) =>
        /\ ~renderError
        /\ mounted
        /\ ~isWinnerDeclared
        /\ players = DefaultPlayers
        /\ grid = initialGridState(DefaultPlayers)
        /\ history = <<>>

\* C19: the initial grid is not constructed for a number of players outside
\* 2..4: opening the screen for such a number fails and yields no grid, so
\* that no session is started with fewer than 2 or more than 4 columns.
C19_PlayerCountChecked ==
    /\ (Opened /\ ~MountThrows /\ Len(MountPlayers) \notin 2..4) =>
          /\ ~mounted
          /\ grid = <<>>
    /\ mounted =>
          \A r \in 1..Len(grid) : Len(grid[r]) \in 2..4

\* C20: every tap carried out in ACTIVE state appends exactly one move to the
\* end of the history, with the tapped row and column and the marks the cell
\* had before the tap, also when the cell already had 3 marks and the grid
\* does not change; the earlier entries are unchanged.
C20_TapAppendsMove ==
    TapDone =>
        /\ Len(history) = Len(lastOp.history) + 1
        /\ SubSeq(history, 1, Len(lastOp.history)) = lastOp.history
        /\ Last(history) =
              [rowIndex |-> lastOp.rowIndex, colIndex |-> lastOp.colIndex,
               previousTaps |-> lastOp.grid[lastOp.rowIndex + 1]
                                           [lastOp.colIndex + 1].taps]

\* C20 witness: a tap on a cell with 3 marks has left the grid as it was and
\* added a move with previousTaps = 3 to the history
C20_Witness ==
    /\ TapDone
    /\ grid = lastOp.grid
    /\ Len(history) = Len(lastOp.history) + 1
    /\ Last(history).previousTaps = 3

\* a step in which handleUndo is carried out
UndoStep == nOps' = nOps + 1 /\ lastOp'.op = "undo" /\ lastOp'.accepted

\* C21: an undo with a non-empty history in ACTIVE state removes exactly the
\* last move from the history, sets the cell that move names to the move's
\* previousTaps and leaves every other cell and every earlier move as it
\* was, also when several moves of the history name the same cell.
C21_UndoPopsLastMove ==
    [][UndoStep =>
          /\ history # <<>>
          /\ ~isWinnerDeclared
          /\ Len(history') = Len(history) - 1
          /\ \A k \in 1..Len(history') : history'[k] = history[k]
          /\ Len(grid') = Len(grid)
          /\ \A r \in 1..Len(grid) :
                /\ Len(grid'[r]) = Len(grid[r])
                /\ \A c \in 1..Len(grid[r]) :
                      grid'[r][c].taps =
                         IF /\ r = history[Len(history)].rowIndex + 1
                            /\ c = history[Len(history)].colIndex + 1
                         THEN history[Len(history)].previousTaps
                         ELSE grid[r][c].taps]_vars

\* C21 witness: the second of two moves on the Bull cell of column 0 has been
\* undone; the cell is back at 1 and the earlier move on it remains
C21_Witness ==
    /\ lastOp.op = "undo"
    /\ lastOp.accepted
    /\ Len(history) = 19
    /\ history[18] = [rowIndex |-> 5, colIndex |-> 0, previousTaps |-> 2]
    /\ history[19] = [rowIndex |-> 6, colIndex |-> 0, previousTaps |-> 0]
    /\ grid[7][1].taps = 1
    /\ grid[6][1].taps = 3

\* a step in which handleUndo returns at its first line
UndoRefusedStep ==
    lastOp'.op = "undo" /\ ~lastOp'.accepted /\ lastOp' # lastOp

\* C22: an undo with an empty history does nothing: the grid, the history and
\* the pending-changes flag are unchanged, no save is started and the
\* collections are unchanged.
C22_UndoEmptyHistoryNoOp ==
    [][(UndoRefusedStep /\ history = <<>>) =>
          UNCHANGED <<grid, history, changesMade, isWinnerDeclared, inflight,
                      effect, store>>]_vars

\* C22 witness: undo was pressed with an empty history in a session that is
\* not won and has changes pending, and the flag is still set
C22_Witness ==
    /\ lastOp.op = "undo"
    /\ ~lastOp.accepted
    /\ history = <<>>
    /\ ~isWinnerDeclared
    /\ changesMade

\* a step that writes the completed collection
CompletedWriteStep == store'.completedGames # store.completedGames

\* the step in which removeFromInProgress writes the in-progress collection
RemovalWriteStep == migration' = "done" /\ migration # "done"

\* the completed collection holds a record of this session's win
WinRecorded(completedGames) ==
    \E k \in 1..Len(completedGames) :
        /\ completedGames[k].gameName = gameName
        /\ completedGames[k].players = players
        /\ Signals # <<>>
        /\ completedGames[k].winner = Signals[1]

MigrationFailStep == migration' = "failed" /\ migration # "failed"

C24_MigrationFailureAbsorbed ==
    /\ [][MigrationFailStep =>
            /\ isWinnerDeclared
            /\ UNCHANGED <<store, grid, history, isWinnerDeclared, timers,
                           pushed, mounted>>]_vars
    /\ [](migration = "failed" => isWinnerDeclared)
    /\ [][migration = "failed" =>
            /\ migration' = "failed"
            /\ (WinRecorded(store.completedGames)
                   => store'.completedGames = store.completedGames)]_vars
    /\ (migration = "failed" ~>
            /\ isWinnerDeclared
            /\ timers = <<>>
            /\ pushed = <<[pathname |-> "/winner-popup",
                           playerName |-> players[1]]>>)

\* the removal failed after the completed record was written: the game is
\* in both collections, the session is won and the pop-up has been opened
C24_Witness ==
    /\ migration = "failed"
    /\ isWinnerDeclared
    /\ WinRecorded(store.completedGames)
    /\ CountName(store.inProgressGames, gameName) = 1
    /\ pushed = <<[pathname |-> "/winner-popup", playerName |-> "Player 1"]>>

\* C25: every write to the completed collection appends one record, and that
\* record has exactly the fields gameName, players, grid, winner, date and
\* time (no history); its gameName and players are the session's, its winner
\* is the player of a column whose seven cells all have 3 taps in the
\* record's grid, and it is the name handed to the winner pop-up.
ColumnOf(ps, name) == CHOOSE c \in 0..(Len(ps) - 1) : ps[c + 1] = name

C25_CompletedRecordContent ==
    [][CompletedWriteStep =>
          /\ Len(store'.completedGames) = Len(store.completedGames) + 1
          /\ Front(store'.completedGames) = store.completedGames
          /\ LET rec == Last(store'.completedGames)
             IN  /\ DOMAIN rec = {"gameName", "players", "grid", "winner",
                                  "date", "time"}
                 /\ rec.gameName = gameName
                 /\ rec.players = players
                 /\ \E c \in 0..(Len(players) - 1) : rec.winner = players[c + 1]
                 /\ Len(rec.grid) = NumRows
                 /\ \A r \in 1..NumRows :
                       /\ Len(rec.grid[r]) = Len(players)
                       /\ rec.grid[r][ColumnOf(players, rec.winner) + 1].taps
                              = MaxTaps
                 /\ isWinner(rec.grid, ColumnOf(players, rec.winner))
                 /\ rec.winner = Signals[1]]_vars

\* the resumed game was won by Player 1 and its record stands after the
\* earlier completed game of the same name; the board was reset or reloaded
\* after the winning tap, and the record still holds the winning grid
C25_Witness ==
    /\ Len(store.completedGames) = 2
    /\ store.completedGames[1] = OldCompleted
    /\ store.completedGames[2].winner = "Player 1"
    /\ isWinner(store.completedGames[2].grid, 0)
    /\ ~isWinner(grid, 0)

\* C26: no step of a game session changes or removes a record that is in the
\* completed collection: every record keeps its position and its content,
\* whatever the session does (tap, undo, reset, regained focus, leaving, or
\* winning a game whose name a completed record already carries).
C26_CompletedRecordsKept ==
    [][/\ Len(store'.completedGames) >= Len(store.completedGames)
       /\ \A k \in 1..Len(store.completedGames) :
             store'.completedGames[k] = store.completedGames[k]]_vars

\* the session was left after its winning tap and its record was written
\* next to the record of an earlier game of the same name
C26_Witness ==
    /\ ~mounted
    /\ migration = "done"
    /\ Len(store.completedGames) = 2
    /\ store.completedGames[1] = OldCompleted
    /\ store.completedGames[2].gameName = OldCompleted.gameName
    /\ store.completedGames[2].winner # OldCompleted.winner

\* C27: when a save of the in-progress record completes its write, the
\* in-progress collection holds exactly one record with the session's
\* gameName and it is the record that save serialized, whatever another save
\* of the same session read or wrote in between; from then on there is
\* exactly one such record until the migration of a won game removes it.
IsSave(op) == op.kind \in {"saveGame", "saveResetGame"}

InProgressWriteStep ==
    /\ store'.inProgressGames # store.inProgressGames
    /\ migration' = migration

C27_LastWriteWins ==
    /\ [][InProgressWriteStep =>
            \E i \in 1..Len(inflight) :
                /\ IsSave(inflight[i])
                /\ inflight[i].pc = "setItem"
                /\ store'.inProgressGames = inflight[i].payload
                /\ CountName(store'.inProgressGames, gameName) = 1
                /\ FindGame(store'.inProgressGames, gameName)
                       = FindGame(inflight[i].payload, gameName)]_vars
    /\ [][(CountName(store.inProgressGames, gameName) = 1 /\ migration' # "done")
             => CountName(store'.inProgressGames, gameName) = 1]_vars

\* two undos each started a save; the first save read before the second undo
\* and wrote after the second save: both have completed, and the one record
\* of the game is the first save's, one move longer than the history on screen
C27_Witness ==
    /\ mounted
    /\ nOps = 2
    /\ lastOp.op = "undo"
    /\ inflight = <<>>
    /\ CountName(store.inProgressGames, gameName) = 1
    /\ Len(FindGame(store.inProgressGames, gameName)[1].history)
           = Len(history) + 1

\* C28: a tap handled while a save of the session is in flight is not lost.
\* While that tap is the latest edit and its pending-changes flag is set,
\* every save in flight was started before the tap, and the completion of
\* such a save leaves the flag set.  If such a save has completed after the
\* tap and the session is then left without a win, with no operation in
\* between, then once all store calls have completed the in-progress record
\* of the game is the session's state: the tap's cell and the tap's Move.
TapWhileSaving ==
    /\ mounted
    /\ ~isWinnerDeclared
    /\ changesMade
    /\ lastOp.op = "tap"
    /\ lastOp.accepted
    /\ \E i \in 1..Len(inflight) : IsSave(inflight[i])

\* the flag a tap set has been cleared: a save started before the tap has
\* completed after it
TapThenSaveDone ==
    /\ mounted
    /\ ~isWinnerDeclared
    /\ ~changesMade
    /\ lastOp.op = "tap"
    /\ lastOp.accepted
    /\ \A i \in 1..Len(inflight) : inflight[i].kind # "fetchGameState"

RecordIsCurrent ==
    FindGame(store.inProgressGames, gameName)
        = <<GameData(gameName, players, grid, history)>>

C28_TapDuringSaveNotLost ==
    /\ [][TapWhileSaving => changesMade']_vars
    /\ \A k \in 0..ScriptOps :
          []((TapThenSaveDone /\ nOps = k) =>
                []((Settled /\ ~isWinnerDeclared /\ nOps = k + 1)
                      => RecordIsCurrent))

\* C29: once a confirmed reset is the session's latest operation, the game
\* is not won and no save of the session is in flight any more (the reset's
\* save and every save started before it have completed), the in-progress
\* record of the game is the reset record, a fresh grid and an empty
\* history, and not a state from before the reset.
ResetSaved ==
    /\ lastOp.op = "reset"
    /\ lastOp.accepted
    /\ ~isWinnerDeclared
    /\ \A i \in 1..Len(inflight) : ~IsSave(inflight[i])

C29_ResetRecordIsFinal ==
    ResetSaved => FindGame(store.inProgressGames, gameName) = <<FreshRecord>>

\* C30: in a game started from a fresh grid, after any sequence of taps,
\* undos and confirmed resets the grid is what replaying the history gives:
\* each cell's taps is the number of Moves of the history on that cell,
\* capped at 3, and each Move's previousTaps is the number of earlier Moves
\* on the same cell, capped at 3.
MovesOn(h, n, rowIndex, colIndex) ==
    Cardinality({i \in 1..n : /\ h[i].rowIndex = rowIndex
                              /\ h[i].colIndex = colIndex})

C30_GridIsReplayOfHistory ==
    /\ \A rowIndex \in 0..(Len(rows) - 1), colIndex \in 0..(Len(players) - 1) :
          CellTaps(grid, rowIndex, colIndex)
              = Min(MaxTaps, MovesOn(history, Len(history), rowIndex, colIndex))
    /\ \A i \in 1..Len(history) :
          history[i].previousTaps
              = Min(MaxTaps, MovesOn(history, i - 1, history[i].rowIndex,
                                     history[i].colIndex))

\* a cell was tapped four times and the fourth tap was undone: the cell
\* stays at 3 with three Moves on it left in the history
C30_Witness ==
    /\ lastOp.op = "undo"
    /\ lastOp.accepted
    /\ nOps = ReplayOps
    /\ CellTaps(grid, 0, 0) = MaxTaps
    /\ MovesOn(history, Len(history), 0, 0) = MaxTaps
    /\ Len(history) = MaxTaps

\* C31: every record a save of the session writes to the in-progress
\* collection holds a grid and a history of one session state: the record's
\* grid is what replaying the record's history on a fresh grid gives (each
\* cell's taps is the number of the record's Moves on it, capped at 3), so
\* every mark of a resumed grid has a Move that undoes it.
IsReplay(g, h) ==
    \A r \in 1..Len(g) : \A c \in 1..Len(g[r]) :
        g[r][c].taps = Min(MaxTaps, MovesOn(h, Len(h), r - 1, c - 1))

C31_SavedRecordIsOneState ==
    \A k \in 1..Len(store.inProgressGames) :
        store.inProgressGames[k].gameName = gameName =>
            IsReplay(store.inProgressGames[k].grid,
                     store.inProgressGames[k].history)

\* C32: in every reachable state the session is won exactly when some column
\* of the grid on screen is closed (its seven cells all at 3 taps); a
\* session that is not won never shows a closed column.
C32_WonIffColumnClosed ==
    Opened =>
        (isWinnerDeclared <=>
            \E colIndex \in 0..(Len(players) - 1) :
                /\ Len(grid) = Len(rows)
                /\ \A r \in 1..Len(grid) : colIndex < Len(grid[r])
                /\ isWinner(grid, colIndex))

\* C33: no step of a session (a save, a reset's save, the removal of a won
\* game) removes, alters or reorders the in-progress records of other games,
\* those whose gameName is not the session's; and when the read of the
\* collection rejects during a save, that save ends there and the store is
\* left as it was.
OtherGames(games) == WithoutGame(games, gameName)

SaveReadFailStep ==
    \E i \in 1..Len(inflight) :
        /\ IsSave(inflight[i])
        /\ inflight[i].pc = "getItem"
        /\ inflight' = RemoveAt(inflight, i)

C33_OtherGamesKept ==
    /\ [][OtherGames(store'.inProgressGames)
              = OtherGames(store.inProgressGames)]_vars
    /\ [][SaveReadFailStep => store' = store]_vars
    /\ [](\A i \in 1..Len(inflight) :
             (inflight[i].kind \in {"saveGame", "saveResetGame",
                                    "removeFromInProgress"}
                 /\ inflight[i].pc = "setItem")
             => OtherGames(inflight[i].payload)
                    = OtherGames(store.inProgressGames))

\* the save an undo started lost its read: no save is left in flight, no
\* write failed, and the collection is as it was, the other game first
C33_Witness ==
    /\ lastOp.op = "undo"
    /\ lastOp.accepted
    /\ changesMade
    /\ ~failedSave
    /\ inflight = <<>>
    /\ store.inProgressGames = <<OtherRecord, NearWinRecord>>


\* C34: a read of a collection whose key is absent, or whose store read
\* fails, yields the empty sequence and raises no error to its caller, in
\* Game History's loadGames and in the session's read on focus: no rejection
\* is ever left uncaught; loadGames shows an empty list for an absent key,
\* and empty lists when one of its reads failed; the session's read of an
\* absent key finds no game and leaves grid and history as they were.
C34_ReadYieldsEmpty ==
    /\ [](uncaught = <<>>)
    /\ [][\A i \in 1..Len(inflight) :
            (inflight[i].kind = "loadGames" /\ inflight[i].pc = "getItem2"
                /\ page' # page)
            => /\ (inflight[i].payload = Absent => page'.inProgressGames = <<>>)
               /\ ("completedGames" \in store.absent
                      => page'.completedGames = <<>>)]_vars
    /\ [][(page.open /\ \E i \in 1..Len(inflight) :
                /\ inflight[i].kind = "loadGames"
                /\ inflight' = RemoveAt(inflight, i)
                /\ page' = page)
            => page'.inProgressGames = <<>> /\ page'.completedGames = <<>>]_vars
    /\ [][(mounted /\ "inProgressGames" \in store.absent
                /\ \E i \in 1..Len(inflight) :
                      /\ inflight[i].kind = "fetchGameState"
                      /\ inflight' = RemoveAt(inflight, i))
            => grid' = grid /\ history' = history]_vars


\* the i-th pending deleteGame writes the list it has filtered
DeleteWriteStep(i) ==
    /\ i \in 1..Len(inflight)
    /\ inflight[i].kind = "deleteGame"
    /\ inflight[i].pc = "setItem"
    /\ inflight' = RemoveAt(inflight, i)
    /\ page' # page \/ store' # store \/ page.open

\* C36: a confirmed delete of a game in Game History removes from the
\* collection it names every record equal to the selected game, leaves the
\* other records of that collection unchanged and in order, and leaves the
\* other collection unchanged.
C36_DeleteRemovesEqualOnly ==
    [][\A i \in 1..Len(inflight) :
         DeleteWriteStep(i) =>
            LET key == KeyOf(inflight[i].type)
            IN  /\ store'[key] = WithoutEqual(store[key], inflight[i].game)
                /\ \A other \in StoreKeys \ {key} : store'[other] = store[other]]_vars


\* a grid of NumRows rows of n cells, none of them tapped
IsFreshGrid(g, n) ==
    /\ Len(g) = NumRows
    /\ \A r \in 1..Len(g) :
          /\ Len(g[r]) = n
          /\ \A c \in 1..n : g[r][c] = [taps |-> 0]

\* C35: for 2, 3 and 4 players the initial grid has 7 rows of as many cells
\* as players, all with taps 0; and a session opened without grid and
\* history parameters starts with that grid and an empty history, not won
\* and with no changes to save.
C35_FreshSession ==
    /\ \A ps \in {Players2, Players3, Players4} :
          IsFreshGrid(initialGridState(ps), Len(ps))
    /\ (/\ mounted
        /\ lastOp.op = "mount"
        /\ ~route.grid.given
        /\ ~route.history.given
        /\ Len(players) \in 2..4)
       => /\ IsFreshGrid(grid, Len(players))
          /\ history = <<>>
          /\ ~isWinnerDeclared
          /\ ~changesMade

C35_Witness ==
    /\ mounted
    /\ lastOp.op = "mount"
    /\ route.grid = Absent
    /\ route.history = Absent
    /\ players = Players3
    /\ inflight = <<>>


\* a step of the setup screen's operation `name`
SetupStep(name) == lastOp'.op = name /\ nOps' = nOps + 1

\* C37: in Game Setup the list always has at least 2 and at most 4 players;
\* addPlayer at 4 players and removePlayer at 2 players leave it unchanged.
C37_PlayerCountInRange ==
    /\ [](setup.open => Len(setup.players) \in 2..4)
    /\ [][(SetupStep("addPlayer") /\ Len(setup.players) = 4)
            => setup'.players = setup.players]_vars
    /\ [][(SetupStep("removePlayer") /\ Len(setup.players) = 2)
            => setup'.players = setup.players]_vars

C37_Witness ==
    /\ lastOp.op = "addPlayer"
    /\ ~lastOp.accepted
    /\ Len(setup.players) = 4

\* a text of blanks only, the empty text included
IsBlank(text) == \A i \in 1..Len(text) : text[i] = " "

\* C38: startGame hands the game screen the entered game name, the current
\* players in order, a fresh grid of 7 rows of players.length untapped cells
\* and an empty history; with a blank game name it starts no session.
C38_StartGameHandsSetup ==
    [][SetupStep("startGame") =>
         IF IsBlank(setup.gameName)
         THEN pushed' = pushed
         ELSE /\ Len(pushed') = Len(pushed) + 1
              /\ SubSeq(pushed', 1, Len(pushed)) = pushed
              /\ LET to == Last(pushed')
                 IN  /\ to.pathname = "/game-screen"
                     /\ to.gameName = setup.gameName
                     /\ ParseOr(to.params.players, <<>>) = setup.players
                     /\ IsFreshGrid(ParseOr(to.params.grid, <<>>),
                                    Len(setup.players))
                     /\ to.params.history = Stringify(<<>>)]_vars

C38_Witness ==
    /\ lastOp.op = "startGame"
    /\ lastOp.accepted
    /\ pushed # <<>>
    /\ Last(pushed).gameName = <<" ", "G">>
    /\ ParseOr(Last(pushed).params.players, <<>>) = <<"Player 1", "Ann", "Player 3">>

\* C39: when no player is renamed, the names in the list are pairwise
\* distinct after any sequence of addPlayer and removePlayer.
C39_DefaultNamesDistinct ==
    \A i, j \in 1..Len(setup.players) :
        i # j => setup.players[i] # setup.players[j]

====
